---- MODULE Spec2Model ----
(***************************************************************************)
(* truns: a canonical Value/Table model and its JSON, TOML and YAML        *)
(* adapters (src/src/value.rs, src/src/table.rs).                          *)
(*                                                                         *)
(* Every tree node is a pair <<tag, payload>>; the tag names the Rust enum *)
(* variant ("Value::Int", "JVal::PosInt", "TVal::Integer", "Yaml::Hash").  *)
(* A HashMap / toml::Table / serde_json::Map is a function from its keys   *)
(* to its entries; a yaml Hash (a LinkedHashMap) is the sequence of its    *)
(* <<key node, value node>> pairs in insertion order.                      *)
(* Integers are two's complement of width Bits (64 in the source).         *)
(***************************************************************************)
EXTENDS Integers, Sequences, FiniteSets, TLC

VARIABLES fmt, dir, input, out1, out2, entry

vars == <<fmt, dir, input, out1, out2, entry>>

\* ------------------------------------------------------------------ bounds
\* width of i64 / u64 in the model (the source has 64)
Bits == 3
\* largest number of nodes of an input tree
MaxNodes == 4

\* ------------------------------------------------------------- integers
RECURSIVE Pow2(_)
Pow2(n) == IF n = 0 THEN 1 ELSE 2 * Pow2(n - 1)

I64Min == -Pow2(Bits - 1)
I64Max == Pow2(Bits - 1) - 1
U64Max == Pow2(Bits) - 1
I64 == I64Min..I64Max
U64 == 0..U64Max

\* `i as u64`
I64AsU64(i) == i % Pow2(Bits)
\* a saturating conversion in place of the wrapping `as`
U64AsI64_Saturating(u) == IF u > I64Max THEN I64Max ELSE u
\* `u as i64`
U64AsI64(u) == IF u > I64Max THEN u - Pow2(Bits) ELSE u

\* --------------------------------------------------------------- floats
\* f64 values by name; "1.0" and "1.5" are finite
F64 == {"1.0", "1.5", "NaN", "inf", "-inf"}
IsFinite(f) == f \notin {"NaN", "inf", "-inf"}
\* f64's PartialEq: NaN differs from itself
F64Eq(f, g) == f = g /\ f # "NaN"
\* f64's Display (f.to_string()): 1.0 prints as "1"
F64ToString(f) == IF f = "1.0" THEN "1" ELSE f
\* str::parse::<f64>(): <<TRUE, f>> or <<FALSE, "">>; the YAML spellings
\* ".inf" and ".nan" are not accepted by Rust's parser
ParseF64(s) ==
    CASE s \in {"1", "1.0"} -> <<TRUE, "1.0">>
      [] s = "1.5" -> <<TRUE, "1.5">>
      [] s \in {"NaN", "nan"} -> <<TRUE, "NaN">>
      [] s \in {"inf", "infinity"} -> <<TRUE, "inf">>
      [] s = "-inf" -> <<TRUE, "-inf">>
      [] OTHER -> <<FALSE, "">>

\* ---------------------------------------------------------------- nodes
Tag(v) == v[1]
Val(v) == v[2]
Keys == {"a", "b"}
KeySeq == <<"a", "b">>
KeyIdx(k) == CHOOSE i \in 1..Len(KeySeq) : KeySeq[i] = k
\* the iteration orders a HashMap over Keys can have
KeyOrders == {o \in [1..Len(KeySeq) -> Keys] : \A k \in Keys : \E i \in DOMAIN o : o[i] = k}
EmptyMap == [k \in {} |-> <<>>]
RECURSIVE SeqFilter(_, _)
SeqFilter(s, S) ==
    IF s = <<>> THEN <<>>
    ELSE (IF Head(s) \in S THEN <<Head(s)>> ELSE <<>>) \o SeqFilter(Tail(s), S)
\* the keys of map m in the iteration order ord
IterKeys(m, ord) == SeqFilter(ord, DOMAIN m)

\* enum Value
VNull == <<"Value::Null", <<>>>>
VInt(i) == <<"Value::Int", i>>
VUInt(u) == <<"Value::UInt", u>>
VFloat(f) == <<"Value::Float", f>>
VString(s) == <<"Value::String", s>>
VBool(b) == <<"Value::Bool", b>>
VArray(a) == <<"Value::Array", a>>
VTable(t) == <<"Value::Table", t>>

\* Result / panic outcomes of a conversion
None == <<"None", <<>>>>
Ok(x) == <<"Ok", x>>
Err(e) == <<"Err", e>>
Panic == <<"Panic", <<>>>>
IsOk(r) == Tag(r) = "Ok"
\* enum value::Error
UnsupportedType(name) == <<"UnsupportedType", name>>
InvalidValue(diag) == <<"InvalidValue", diag>>
\* enum table::Error
ValueError(e) == <<"ValueError", e>>
TomlError(e) == <<"TomlError", e>>

\* #[derive(PartialEq)] on Value and Table
RECURSIVE ValueEq(_, _)
ValueEq(v, w) ==
    /\ Tag(v) = Tag(w)
    /\ CASE Tag(v) = "Value::Float" -> F64Eq(Val(v), Val(w))
         [] Tag(v) = "Value::Array" ->
              /\ Len(Val(v)) = Len(Val(w))
              /\ \A i \in 1..Len(Val(v)) : ValueEq(Val(v)[i], Val(w)[i])
         [] Tag(v) = "Value::Table" ->
              /\ DOMAIN Val(v) = DOMAIN Val(w)
              /\ \A k \in DOMAIN Val(v) : ValueEq(Val(v)[k], Val(w)[k])
         [] OTHER -> Val(v) = Val(w)

\* ------------------------------------------------------- bounded inputs
\* Trees by node count. Leaves(L) and the empty containers have one node;
\* C(s) is the set of container nodes whose children are the forest s.
\* Compositions(k, n): the ways to split k nodes over n children.
RECURSIVE SumSeq(_)
SumSeq(c) == IF c = <<>> THEN 0 ELSE Head(c) + SumSeq(Tail(c))
Compositions(k, n) == {c \in [1..n -> 1..k] : SumSeq(c) = k}
\* the forests whose i-th tree has c[i] nodes; lv[j]: the trees of j nodes
RECURSIVE ProdSeq(_, _)
ProdSeq(lv, c) ==
    IF c = <<>> THEN {<<>>}
    ELSE LET rests == ProdSeq(lv, Tail(c))
         IN  {<<t>> \o rest : t \in lv[Head(c)], rest \in rests}
\* <<n, c>>: n children, split as c, for a container of k nodes
SplitsOf(k) == {p \in (1..k) \X UNION {[1..n -> 1..k] : n \in 1..k} :
                   p[2] \in Compositions(k - 1, p[1])}
RECURSIVE LevelsOf(_, _, _)
LevelsOf(L, C(_), k) ==
    IF k = 1 THEN << L \cup C(<<>>) >>
    ELSE LET lv == LevelsOf(L, C, k - 1)
         IN  Append(lv, UNION {C(s) : s \in UNION {ProdSeq(lv, p[2]) : p \in SplitsOf(k)}})
\* x is a tree of at most n nodes
IsTreeUpTo(x, L, C(_), n) ==
    LET lv == LevelsOf(L, C, n - 1)
    IN  \/ \E k \in 1..(n - 1) : x \in lv[k]
        \/ \E p \in SplitsOf(n) : \E s \in ProdSeq(lv, p[2]) : x \in C(s)

\* the maps over n = Len(s) of the Keys whose entries are, in key order, s
MapsOf(s) ==
    {[key \in K |-> s[Cardinality({j \in K : KeyIdx(j) <= KeyIdx(key)})]]
     : K \in {K \in SUBSET Keys : Cardinality(K) = Len(s)}}

\* Value trees: every scalar alone or in a one-element array, and every
\* shape of up to MaxNodes nodes over a few scalars
ValueScalars ==
    {VNull, VString("s"), VBool(TRUE), VBool(FALSE)}
    \cup {VInt(i) : i \in I64} \cup {VUInt(u) : u \in U64} \cup {VFloat(f) : f \in F64}
ValueLeaves == {VNull, VInt(-1), VUInt(U64Max), VFloat("NaN"), VFloat("1.0"), VString("s")}
ValueContainers(s) == {VArray(s)} \cup {VTable(m) : m \in MapsOf(s)}
IsValueInput(x) ==
    \/ x \in ValueScalars
    \/ \E y \in ValueScalars : x = VArray(<<y>>)
    \/ IsTreeUpTo(x, ValueLeaves, ValueContainers, MaxNodes)

\* ----------------------------------------------------- Result plumbing
\* Option<T>
Some(x) == <<"Some", x>>
\* Option::unwrap and Result collection: the first element of rs that is not
\* Ok (an Err of `?`, or a panic), or None when all are Ok
FirstFailure(rs) ==
    IF \A i \in DOMAIN rs : IsOk(rs[i]) THEN None
    ELSE rs[CHOOSE i \in DOMAIN rs : ~IsOk(rs[i]) /\ \A j \in 1..(i - 1) : IsOk(rs[j])]
\* a sequence converted element by element, in order, stopping at the first failure
CollectSeq(rs) ==
    IF FirstFailure(rs) = None THEN Ok([i \in DOMAIN rs |-> Val(rs[i])]) ELSE FirstFailure(rs)
\* a map converted entry by entry in the iteration order ks (a sequence of
\* its keys), rs[i] being the outcome for key ks[i]
CollectMap(ks, rs) ==
    IF FirstFailure(rs) = None
    THEN Ok([k \in {ks[i] : i \in DOMAIN ks} |->
                Val(rs[CHOOSE i \in DOMAIN ks : ks[i] = k])])
    ELSE FirstFailure(rs)

\* ------------------------------------------------------------------ JSON
\* serde_json::Value
JNull == <<"JVal::Null", <<>>>>
JBool(b) == <<"JVal::Bool", b>>
JNumber(n) == <<"JVal::Number", n>>
JString(s) == <<"JVal::String", s>>
JArray(a) == <<"JVal::Array", a>>
JObject(o) == <<"JVal::Object", o>>
\* serde_json::Number: a PosInt(u64), a NegInt(i64, always negative) or a
\* Float(f64, always finite)
PosInt(u) == <<"PosInt", u>>
NegInt(i) == <<"NegInt", i>>
NFloat(f) == <<"Float", f>>

\* sj::Number::from_f64(f): None unless f is finite
NumberFromF64(f) == IF IsFinite(f) THEN Some(NFloat(f)) ELSE None
\* sj::Number::from(i: i64)
NumberFromI64(i) == IF i < 0 THEN NegInt(i) ELSE PosInt(I64AsU64(i))
\* sj::Number::from(u: u64)
NumberFromU64(u) == PosInt(u)
\* n.is_f64(), n.is_u64(), n.as_f64(), n.as_u64(), n.as_i64()
IsF64(n) == Tag(n) = "Float"
IsU64(n) == Tag(n) = "PosInt"
AsF64(n) == IF Tag(n) = "Float" THEN Some(Val(n)) ELSE None
AsU64(n) == IF Tag(n) = "PosInt" THEN Some(Val(n)) ELSE None
AsI64(n) ==
    CASE Tag(n) = "NegInt" -> Some(Val(n))
      [] Tag(n) = "PosInt" -> IF Val(n) <= I64Max THEN Some(Val(n)) ELSE None
      [] OTHER -> None
\* opt.unwrap(), then wrap(the value): a panic on None
Unwrap(opt) == IF Tag(opt) = "Some" THEN Ok(Val(opt)) ELSE Panic

\* Self::Float(f) => JVal::Number(sj::Number::from_f64(f).unwrap())
FloatToJson(f) ==
    LET n == Unwrap(NumberFromF64(f)) IN IF IsOk(n) THEN Ok(JNumber(Val(n))) ELSE n
\* Self::Int(i) => JVal::Number(sj::Number::from(i))
IntToJson(i) == Ok(JNumber(NumberFromI64(i)))
\* Self::UInt(i) => JVal::Number(sj::Number::from(i))
UIntToJson(u) == Ok(JNumber(NumberFromU64(u)))

\* impl Into<serde_json::Value> for Value; ord is the iteration order of
\* the HashMaps met on the way
RECURSIVE ToJson(_, _)
ToJson(v, ord) ==
    CASE Tag(v) = "Value::Null" -> Ok(JNull)
      [] Tag(v) = "Value::Bool" -> Ok(JBool(Val(v)))
      [] Tag(v) = "Value::Float" -> FloatToJson(Val(v))
      [] Tag(v) = "Value::Int" -> IntToJson(Val(v))
      [] Tag(v) = "Value::UInt" -> UIntToJson(Val(v))
      [] Tag(v) = "Value::Array" ->
           LET r == CollectSeq([i \in DOMAIN Val(v) |-> ToJson(Val(v)[i], ord)])
           IN  IF IsOk(r) THEN Ok(JArray(Val(r))) ELSE r
      [] Tag(v) = "Value::String" -> Ok(JString(Val(v)))
      [] Tag(v) = "Value::Table" ->
           LET ks == IterKeys(Val(v), ord)
               r == CollectMap(ks, [i \in DOMAIN ks |-> ToJson(Val(v)[ks[i]], ord)])
           IN  IF IsOk(r) THEN Ok(JObject(Val(r))) ELSE r

\* the classification without its is_u64 branch
NumberFromJson_NoUnsigned(n) ==
    IF IsF64(n) THEN LET f == Unwrap(AsF64(n)) IN IF IsOk(f) THEN Ok(VFloat(Val(f))) ELSE f
    ELSE LET i == Unwrap(AsI64(n)) IN IF IsOk(i) THEN Ok(VInt(Val(i))) ELSE i
\* JVal::Number(n) => Float / UInt / Int by is_f64, is_u64
NumberFromJson(n) ==
    IF IsF64(n) THEN LET f == Unwrap(AsF64(n)) IN IF IsOk(f) THEN Ok(VFloat(Val(f))) ELSE f
    ELSE IF IsU64(n) THEN LET u == Unwrap(AsU64(n)) IN IF IsOk(u) THEN Ok(VUInt(Val(u))) ELSE u
    ELSE LET i == Unwrap(AsI64(n)) IN IF IsOk(i) THEN Ok(VInt(Val(i))) ELSE i

\* impl From<serde_json::Value> for Value; a serde_json::Map iterates in
\* key order
RECURSIVE FromJson(_)
FromJson(j) ==
    CASE Tag(j) = "JVal::Bool" -> Ok(VBool(Val(j)))
      [] Tag(j) = "JVal::Null" -> Ok(VNull)
      [] Tag(j) = "JVal::Number" -> NumberFromJson(Val(j))
      [] Tag(j) = "JVal::String" -> Ok(VString(Val(j)))
      [] Tag(j) = "JVal::Array" ->
           LET r == CollectSeq([i \in DOMAIN Val(j) |-> FromJson(Val(j)[i])])
           IN  IF IsOk(r) THEN Ok(VArray(Val(r))) ELSE r
      [] Tag(j) = "JVal::Object" ->
           LET ks == IterKeys(Val(j), KeySeq)
               r == CollectMap(ks, [i \in DOMAIN ks |-> FromJson(Val(j)[ks[i]])])
           IN  IF IsOk(r) THEN Ok(VTable(Val(r))) ELSE r

\* Table::to_json
TableToJson(t, ord) == ToJson(VTable(t), ord)
\* Table::from_json: Some(table) or None
TableFromJson(content) ==
    LET r == FromJson(content)
    IN  IF ~IsOk(r) THEN r
        ELSE Ok(IF Tag(Val(r)) = "Value::Table" THEN Some(Val(Val(r))) ELSE None)

\* native JSON values: a Number never holds a non-finite float or a
\* non-negative NegInt
JsonScalars ==
    {JNull, JString("s"), JBool(TRUE), JBool(FALSE)}
    \cup {JNumber(PosInt(u)) : u \in U64} \cup {JNumber(NegInt(i)) : i \in I64Min..(-1)}
    \cup {JNumber(NFloat(f)) : f \in {f \in F64 : IsFinite(f)}}
JsonLeaves == {JNull, JNumber(NegInt(-1)), JNumber(PosInt(0)), JNumber(PosInt(U64Max)),
               JNumber(NFloat("1.0")), JString("s")}
JsonContainers(s) == {JArray(s)} \cup {JObject(m) : m \in MapsOf(s)}
IsJsonInput(x) ==
    \/ x \in JsonScalars
    \/ \E y \in JsonScalars : x = JArray(<<y>>)
    \/ IsTreeUpTo(x, JsonLeaves, JsonContainers, MaxNodes)

\* ------------------------------------------------------------------ TOML
\* toml::Value
TBoolean(b) == <<"TVal::Boolean", b>>
TDatetime(dt) == <<"TVal::Datetime", dt>>
TFloat(f) == <<"TVal::Float", f>>
TInteger(i) == <<"TVal::Integer", i>>
TString(s) == <<"TVal::String", s>>
TTable(t) == <<"TVal::Table", t>>
TArray(a) == <<"TVal::Array", a>>

\* dt.to_string() of a local date <<year, month, day>>
Pad2(n) == IF n < 10 THEN "0" \o ToString(n) ELSE ToString(n)
DatetimeToString(dt) == ToString(dt[1]) \o "-" \o Pad2(dt[2]) \o "-" \o Pad2(dt[3])

\* the sign dropped: every integer imported as the UInt of its magnitude
IntegerFromToml_Magnitude(i) == VUInt(IF i < 0 THEN -i ELSE i)
\* TVal::Integer(i) => if i >= 0 { UInt(i as u64) } else { Int(i) }
IntegerFromToml(i) == IF i >= 0 THEN VUInt(I64AsU64(i)) ELSE VInt(i)

\* impl From<toml::Value> for Value; a toml::Table iterates in key order
RECURSIVE FromToml(_)
FromToml(t) ==
    CASE Tag(t) = "TVal::Boolean" -> Ok(VBool(Val(t)))
      [] Tag(t) = "TVal::Datetime" -> Ok(VString(DatetimeToString(Val(t))))
      [] Tag(t) = "TVal::Float" -> Ok(VFloat(Val(t)))
      [] Tag(t) = "TVal::Integer" -> Ok(IntegerFromToml(Val(t)))
      [] Tag(t) = "TVal::String" -> Ok(VString(Val(t)))
      [] Tag(t) = "TVal::Table" ->
           LET ks == IterKeys(Val(t), KeySeq)
               r == CollectMap(ks, [i \in DOMAIN ks |-> FromToml(Val(t)[ks[i]])])
           IN  IF IsOk(r) THEN Ok(VTable(Val(r))) ELSE r
      [] Tag(t) = "TVal::Array" ->
           LET r == CollectSeq([i \in DOMAIN Val(t) |-> FromToml(Val(t)[i])])
           IN  IF IsOk(r) THEN Ok(VArray(Val(r))) ELSE r

\* Null exported as a string instead of refused
NullToToml_AsString == Ok(TString("null"))
\* Self::Null => return Err(Error::UnsupportedType("null"))
NullToToml == Err(UnsupportedType("null"))
\* Self::Int(i) => TVal::Integer(i)
IntToToml(i) == Ok(TInteger(i))
\* Self::UInt(i) => TVal::Integer(i as i64)
UIntToToml(u) == Ok(TInteger(U64AsI64(u)))

\* impl TryInto<toml::Value> for Value; ord is the iteration order of the
\* HashMaps met on the way
RECURSIVE ToToml(_, _)
ToToml(v, ord) ==
    CASE Tag(v) = "Value::Array" ->
           LET r == CollectSeq([i \in DOMAIN Val(v) |-> ToToml(Val(v)[i], ord)])
           IN  IF IsOk(r) THEN Ok(TArray(Val(r))) ELSE r
      [] Tag(v) = "Value::Bool" -> Ok(TBoolean(Val(v)))
      [] Tag(v) = "Value::Float" -> Ok(TFloat(Val(v)))
      [] Tag(v) = "Value::Int" -> IntToToml(Val(v))
      [] Tag(v) = "Value::UInt" -> UIntToToml(Val(v))
      [] Tag(v) = "Value::String" -> Ok(TString(Val(v)))
      [] Tag(v) = "Value::Table" ->
           LET ks == IterKeys(Val(v), ord)
               r == CollectMap(ks, [i \in DOMAIN ks |-> ToToml(Val(v)[ks[i]], ord)])
           IN  IF IsOk(r) THEN Ok(TTable(Val(r))) ELSE r
      [] Tag(v) = "Value::Null" -> NullToToml

\* toml::Table::try_from(v): serializes v and accepts only a table
TomlTableTryFrom(tv) ==
    IF Tag(tv) = "TVal::Table" THEN Ok(Val(tv)) ELSE Err(<<"ser::Error", "unsupported type">>)
\* r.map_err(|e| Error::ValueError(e)), r.map_err(|e| Error::TomlError(e))
MapErrValueError(r) == IF Tag(r) = "Err" THEN Err(ValueError(Val(r))) ELSE r
MapErrTomlError(r) == IF Tag(r) = "Err" THEN Err(TomlError(Val(r))) ELSE r
\* the conversion's error wrapped as a TomlError
TableToToml_TomlError(t, ord) ==
    LET r == MapErrTomlError(ToToml(VTable(t), ord))
    IN  IF IsOk(r) THEN MapErrTomlError(TomlTableTryFrom(Val(r))) ELSE r
\* Table::to_toml
TableToToml(t, ord) ==
    LET r == MapErrValueError(ToToml(VTable(t), ord))
    IN  IF IsOk(r) THEN MapErrTomlError(TomlTableTryFrom(Val(r))) ELSE r
\* Table::from, Table::from_toml with a toml::Value: Some(table) or None
TableFromToml(content) ==
    LET r == FromToml(content)
    IN  IF ~IsOk(r) THEN r
        ELSE Ok(IF Tag(Val(r)) = "Value::Table" THEN Some(Val(Val(r))) ELSE None)

\* native TOML values
TomlDates == {<<1979, 5, 27>>}
TomlScalars ==
    {TString("s"), TBoolean(TRUE), TBoolean(FALSE)}
    \cup {TInteger(i) : i \in I64} \cup {TFloat(f) : f \in F64}
    \cup {TDatetime(d) : d \in TomlDates}
TomlLeaves == {TInteger(-1), TInteger(0), TInteger(I64Max), TBoolean(TRUE), TString("s"),
               TDatetime(<<1979, 5, 27>>)}
TomlContainers(s) == {TArray(s)} \cup {TTable(m) : m \in MapsOf(s)}
IsTomlInput(x) ==
    \/ x \in TomlScalars
    \/ \E y \in TomlScalars : x = TArray(<<y>>)
    \/ IsTreeUpTo(x, TomlLeaves, TomlContainers, MaxNodes)

\* ------------------------------------------------------------------ YAML
\* yaml_rust::Yaml
YAlias(n) == <<"Yaml::Alias", n>>
YBadValue == <<"Yaml::BadValue", <<>>>>
YNull == <<"Yaml::Null", <<>>>>
YInteger(i) == <<"Yaml::Integer", i>>
YReal(s) == <<"Yaml::Real", s>>
YString(s) == <<"Yaml::String", s>>
YBoolean(b) == <<"Yaml::Boolean", b>>
YArray(a) == <<"Yaml::Array", a>>
YHash(h) == <<"Yaml::Hash", h>>

\* format!("{:?}") of a Yaml node
RECURSIVE DebugYaml(_), DebugJoin(_)
DebugJoin(ss) ==
    IF ss = <<>> THEN ""
    ELSE IF Len(ss) = 1 THEN ss[1] ELSE ss[1] \o ", " \o DebugJoin(Tail(ss))
DebugYaml(y) ==
    CASE Tag(y) = "Yaml::Alias" -> "Alias(" \o ToString(Val(y)) \o ")"
      [] Tag(y) = "Yaml::BadValue" -> "BadValue"
      [] Tag(y) = "Yaml::Null" -> "Null"
      [] Tag(y) = "Yaml::Integer" -> "Integer(" \o ToString(Val(y)) \o ")"
      [] Tag(y) = "Yaml::Real" -> "Real(" \o ToString(Val(y)) \o ")"
      [] Tag(y) = "Yaml::String" -> "String(" \o ToString(Val(y)) \o ")"
      [] Tag(y) = "Yaml::Boolean" -> "Boolean(" \o (IF Val(y) THEN "true" ELSE "false") \o ")"
      [] Tag(y) = "Yaml::Array" ->
           "Array([" \o DebugJoin([i \in DOMAIN Val(y) |-> DebugYaml(Val(y)[i])]) \o "])"
      [] Tag(y) = "Yaml::Hash" ->
           "Hash({" \o DebugJoin([i \in DOMAIN Val(y) |->
               DebugYaml(Val(y)[i][1]) \o ": " \o DebugYaml(Val(y)[i][2])]) \o "})"

\* key.as_str()
AsStr(y) == IF Tag(y) = "Yaml::String" THEN Some(Val(y)) ELSE None

\* the guard written `i > 0`
IntegerFromYaml_Strict(i) == IF i > 0 THEN VUInt(I64AsU64(i)) ELSE VInt(i)
\* Yaml::Integer(i) if i >= 0 => UInt(i as u64); Yaml::Integer(i) => Int(i)
IntegerFromYaml(i) == IF i >= 0 THEN VUInt(I64AsU64(i)) ELSE VInt(i)
\* Yaml::Real(fs) => Self::Float(fs.parse().unwrap())
RealFromYaml(fs) ==
    LET p == ParseF64(fs) IN IF p[1] THEN Ok(VFloat(p[2])) ELSE Panic
\* an alias read as a null
AliasFromYaml_AsNull == Ok(VNull)
\* Yaml::Alias(_) => return Err(Error::UnsupportedType("alias"))
AliasFromYaml == Err(UnsupportedType("alias"))
\* the key reported with the wrong error kind
BadKey_Unsupported(key) == Err(UnsupportedType("key"))
\* the outcome a Hash entry has when its key is not a string
BadKey(key) == Err(InvalidValue(DebugYaml(key)))

\* impl TryFrom<yaml::Yaml> for Value
RECURSIVE FromYaml(_)
\* the value converted before the key is examined
EntryFromYaml_ValueFirst(e) ==
    IF ~IsOk(FromYaml(e[2])) THEN FromYaml(e[2])
    ELSE IF AsStr(e[1]) = None THEN BadKey(e[1]) ELSE FromYaml(e[2])
\* one entry <<key, val>> of a Hash: the key is examined, then the value
EntryFromYaml(e) == IF AsStr(e[1]) = None THEN BadKey(e[1]) ELSE FromYaml(e[2])
FromYaml(y) ==
    CASE Tag(y) = "Yaml::Alias" -> AliasFromYaml
      [] Tag(y) = "Yaml::BadValue" -> Err(InvalidValue(DebugYaml(y)))
      [] Tag(y) = "Yaml::Null" -> Ok(VNull)
      [] Tag(y) = "Yaml::Integer" -> Ok(IntegerFromYaml(Val(y)))
      [] Tag(y) = "Yaml::Real" -> RealFromYaml(Val(y))
      [] Tag(y) = "Yaml::String" -> Ok(VString(Val(y)))
      [] Tag(y) = "Yaml::Boolean" -> Ok(VBool(Val(y)))
      [] Tag(y) = "Yaml::Array" ->
           LET r == CollectSeq([i \in DOMAIN Val(y) |-> FromYaml(Val(y)[i])])
           IN  IF IsOk(r) THEN Ok(VArray(Val(r))) ELSE r
      [] Tag(y) = "Yaml::Hash" ->
           LET h == Val(y)
               rs == [i \in DOMAIN h |-> EntryFromYaml(h[i])]
           IN  IF FirstFailure(rs) # None THEN FirstFailure(rs)
               ELSE Ok(VTable([k \in {Val(h[i][1]) : i \in DOMAIN h} |->
                         Val(rs[CHOOSE i \in DOMAIN h :
                                 /\ Val(h[i][1]) = k
                                 /\ \A j \in DOMAIN h : Val(h[j][1]) = k => j <= i])]))

\* Self::UInt(i) => Yaml::Integer(i as i64)
UIntToYaml(u) == YInteger(U64AsI64(u))
\* impl Into<yaml::Yaml> for Value; the Hash gets its entries in the
\* iteration order ord of the HashMap
RECURSIVE ToYaml(_, _)
ToYaml(v, ord) ==
    CASE Tag(v) = "Value::Null" -> YNull
      [] Tag(v) = "Value::Bool" -> YBoolean(Val(v))
      [] Tag(v) = "Value::Float" -> YReal(F64ToString(Val(v)))
      [] Tag(v) = "Value::Int" -> YInteger(Val(v))
      [] Tag(v) = "Value::UInt" -> UIntToYaml(Val(v))
      [] Tag(v) = "Value::String" -> YString(Val(v))
      [] Tag(v) = "Value::Array" -> YArray([i \in DOMAIN Val(v) |-> ToYaml(Val(v)[i], ord)])
      [] Tag(v) = "Value::Table" ->
           LET ks == IterKeys(Val(v), ord)
           IN  YHash([i \in DOMAIN ks |-> <<YString(ks[i]), ToYaml(Val(v)[ks[i]], ord)>>])

\* Table::from_yaml
TableFromYaml(content) ==
    LET r == FromYaml(content)
    IN  CASE IsOk(r) /\ Tag(Val(r)) = "Value::Table" -> Ok(Val(Val(r)))
          [] IsOk(r) -> Err(ValueError(InvalidValue("Not a table")))
          [] Tag(r) = "Err" -> Err(ValueError(Val(r)))
          [] OTHER -> r
\* Table::to_yaml
TableToYaml(t, ord) == ToYaml(VTable(t), ord)

\* native YAML nodes; a Hash holds up to Len(KeySeq) entries with distinct
\* key nodes, which need not be strings
YamlScalars ==
    {YAlias(0), YBadValue, YNull, YString("s"), YBoolean(TRUE), YBoolean(FALSE)}
    \cup {YInteger(i) : i \in I64} \cup {YReal(s) : s \in {"1", "1.5", "inf", ".inf"}}
YamlLeaves == {YAlias(0), YBadValue, YInteger(-1)}
YamlKeys == {YString("a"), YString("b"), YInteger(1), YAlias(0)}
YamlContainers(s) ==
    {YArray(s)}
    \cup {YHash([i \in DOMAIN s |-> <<ks[i], s[i]>>])
          : ks \in {ks \in [DOMAIN s -> YamlKeys] :
                       /\ Len(s) <= Len(KeySeq)
                       /\ \A i, j \in DOMAIN s : ks[i] = ks[j] => i = j}}
IsYamlInput(x) ==
    \/ x \in YamlScalars
    \/ \E y \in YamlScalars : x = YArray(<<y>>)
    \/ IsTreeUpTo(x, YamlLeaves, YamlContainers, MaxNodes)

\* --------------------------------------------------------- the callers
\* A caller holds `input`: a Value (dir = "export") or a native value of
\* format fmt (dir = "import"). out1 is the outcome of converting input,
\* out2 of converting out1's value back, entry of the Table-level function.
Start(f, d) == fmt = f /\ dir = d /\ out1 = None /\ out2 = None /\ entry = None
Back(f, d) == fmt = f /\ dir = d /\ IsOk(out1) /\ out2 = None

InitJson ==
    /\ fmt = "json" /\ out1 = None /\ out2 = None /\ entry = None
    /\ \/ dir = "export" /\ IsValueInput(input)
       \/ dir = "import" /\ IsJsonInput(input)

ExportJson ==
    /\ Start("json", "export")
    /\ \E ord \in KeyOrders : out1' = ToJson(input, ord)
    /\ UNCHANGED <<fmt, dir, input, out2, entry>>
ReimportJson ==
    /\ Back("json", "export")
    /\ out2' = FromJson(Val(out1))
    /\ UNCHANGED <<fmt, dir, input, out1, entry>>
ImportJson ==
    /\ Start("json", "import")
    /\ out1' = FromJson(input)
    /\ UNCHANGED <<fmt, dir, input, out2, entry>>
ReexportJson ==
    /\ Back("json", "import")
    /\ \E ord \in KeyOrders : out2' = ToJson(Val(out1), ord)
    /\ UNCHANGED <<fmt, dir, input, out1, entry>>
CallTableToJson ==
    /\ Start("json", "export") /\ Tag(input) = "Value::Table"
    /\ \E ord \in KeyOrders : entry' = TableToJson(Val(input), ord)
    /\ UNCHANGED <<fmt, dir, input, out1, out2>>
CallTableFromJson ==
    /\ Start("json", "import")
    /\ entry' = TableFromJson(input)
    /\ UNCHANGED <<fmt, dir, input, out1, out2>>

NextJson ==
    \/ ExportJson \/ ReimportJson \/ ImportJson \/ ReexportJson
    \/ CallTableToJson \/ CallTableFromJson

SpecJson == InitJson /\ [][NextJson]_vars

InitToml ==
    /\ fmt = "toml" /\ out1 = None /\ out2 = None /\ entry = None
    /\ \/ dir = "export" /\ IsValueInput(input)
       \/ dir = "import" /\ IsTomlInput(input)

ExportToml ==
    /\ Start("toml", "export")
    /\ \E ord \in KeyOrders : out1' = ToToml(input, ord)
    /\ UNCHANGED <<fmt, dir, input, out2, entry>>
ReimportToml ==
    /\ Back("toml", "export")
    /\ out2' = FromToml(Val(out1))
    /\ UNCHANGED <<fmt, dir, input, out1, entry>>
ImportToml ==
    /\ Start("toml", "import")
    /\ out1' = FromToml(input)
    /\ UNCHANGED <<fmt, dir, input, out2, entry>>
ReexportToml ==
    /\ Back("toml", "import")
    /\ \E ord \in KeyOrders : out2' = ToToml(Val(out1), ord)
    /\ UNCHANGED <<fmt, dir, input, out1, entry>>
CallTableToToml ==
    /\ Start("toml", "export") /\ Tag(input) = "Value::Table"
    /\ \E ord \in KeyOrders : entry' = TableToToml(Val(input), ord)
    /\ UNCHANGED <<fmt, dir, input, out1, out2>>
CallTableFromToml ==
    /\ Start("toml", "import")
    /\ entry' = TableFromToml(input)
    /\ UNCHANGED <<fmt, dir, input, out1, out2>>

NextToml ==
    \/ ExportToml \/ ReimportToml \/ ImportToml \/ ReexportToml
    \/ CallTableToToml \/ CallTableFromToml

SpecToml == InitToml /\ [][NextToml]_vars

InitYaml ==
    /\ fmt = "yaml" /\ out1 = None /\ out2 = None /\ entry = None
    /\ \/ dir = "export" /\ IsValueInput(input)
       \/ dir = "import" /\ IsYamlInput(input)

ExportYaml ==
    /\ Start("yaml", "export")
    /\ \E ord \in KeyOrders : out1' = Ok(ToYaml(input, ord))
    /\ UNCHANGED <<fmt, dir, input, out2, entry>>
ReimportYaml ==
    /\ Back("yaml", "export")
    /\ out2' = FromYaml(Val(out1))
    /\ UNCHANGED <<fmt, dir, input, out1, entry>>
ImportYaml ==
    /\ Start("yaml", "import")
    /\ out1' = FromYaml(input)
    /\ UNCHANGED <<fmt, dir, input, out2, entry>>
ReexportYaml ==
    /\ Back("yaml", "import")
    /\ \E ord \in KeyOrders : out2' = Ok(ToYaml(Val(out1), ord))
    /\ UNCHANGED <<fmt, dir, input, out1, entry>>
CallTableToYaml ==
    /\ Start("yaml", "export") /\ Tag(input) = "Value::Table"
    /\ \E ord \in KeyOrders : entry' = Ok(TableToYaml(Val(input), ord))
    /\ UNCHANGED <<fmt, dir, input, out1, out2>>
CallTableFromYaml ==
    /\ Start("yaml", "import")
    /\ entry' = TableFromYaml(input)
    /\ UNCHANGED <<fmt, dir, input, out1, out2>>

NextYaml ==
    \/ ExportYaml \/ ReimportYaml \/ ImportYaml \/ ReexportYaml
    \/ CallTableToYaml \/ CallTableFromYaml

SpecYaml == InitYaml /\ [][NextYaml]_vars

\* all three adapters
Init == InitJson \/ InitToml \/ InitYaml
Next == NextJson \/ NextToml \/ NextYaml
Spec == Init /\ [][Next]_vars

\* ------------------------------------------------------------ properties
\* the nodes of a Value tree, itself included
RECURSIVE ValueNodes(_)
ValueNodes(v) ==
    {v} \cup
    CASE Tag(v) = "Value::Array" -> UNION {ValueNodes(Val(v)[i]) : i \in DOMAIN Val(v)}
      [] Tag(v) = "Value::Table" -> UNION {ValueNodes(Val(v)[k]) : k \in DOMAIN Val(v)}
      [] OTHER -> {}
ContainsNull(v) == \E n \in ValueNodes(v) : Tag(n) = "Value::Null"
FloatsFinite(v) == \A n \in ValueNodes(v) : Tag(n) = "Value::Float" => IsFinite(Val(n))
IntsNegative(v) == \A n \in ValueNodes(v) : Tag(n) = "Value::Int" => Val(n) < 0
\* v with every Int(i), i >= 0, replaced by UInt(i)
RECURSIVE SignSplit(_)
SignSplit(v) ==
    CASE Tag(v) = "Value::Int" -> IF Val(v) >= 0 THEN VUInt(Val(v)) ELSE v
      [] Tag(v) = "Value::Array" -> VArray([i \in DOMAIN Val(v) |-> SignSplit(Val(v)[i])])
      [] Tag(v) = "Value::Table" -> VTable([k \in DOMAIN Val(v) |-> SignSplit(Val(v)[k])])
      [] OTHER -> v

\* the nodes of a YAML tree in value position (top level, array elements,
\* mapping values at any depth), and the key nodes of its mappings
RECURSIVE YamlValueNodes(_)
YamlValueNodes(y) ==
    {y} \cup
    CASE Tag(y) = "Yaml::Array" -> UNION {YamlValueNodes(Val(y)[i]) : i \in DOMAIN Val(y)}
      [] Tag(y) = "Yaml::Hash" -> UNION {YamlValueNodes(Val(y)[i][2]) : i \in DOMAIN Val(y)}
      [] OTHER -> {}
YamlKeyNodes(y) ==
    UNION {{Val(n)[i][1] : i \in DOMAIN Val(n)}
           : n \in {m \in YamlValueNodes(y) : Tag(m) = "Yaml::Hash"}}
NonStringKeys(y) == {k \in YamlKeyNodes(y) : Tag(k) # "Yaml::String"}
\* a real whose text Rust does not parse
BadReal(n) == Tag(n) = "Yaml::Real" /\ ~ParseF64(Val(n))[1]
AliasValues(y) == {n \in YamlValueNodes(y) : Tag(n) = "Yaml::Alias"}
OtherDefects(y) == {n \in YamlValueNodes(y) : Tag(n) = "Yaml::BadValue" \/ BadReal(n)}

Exported(f) == fmt = f /\ dir = "export" /\ out1 # None
Reimported(f) == fmt = f /\ dir = "export" /\ out2 # None
Imported(f) == fmt = f /\ dir = "import" /\ out1 # None
Reexported(f) == fmt = f /\ dir = "import" /\ out2 # None

\* C1 as stated: every Value tree with finite floats, whatever the sign of
\* its Int nodes, exports to JSON and is imported back equal to itself.
C1_RoundTripAnyInt ==
    /\ Exported("json") /\ FloatsFinite(input) => IsOk(out1)
    /\ Reimported("json") /\ FloatsFinite(input) => IsOk(out2) /\ ValueEq(Val(out2), input)
\* C1 amended: a Value tree with finite floats whose Int nodes are all
\* negative exports to JSON and is imported back equal to itself; with
\* non-negative Int nodes it comes back with each Int(i), i >= 0, as UInt(i).
C1_RoundTripJson ==
    /\ Exported("json") /\ FloatsFinite(input) => IsOk(out1)
    /\ Reimported("json") /\ FloatsFinite(input) =>
         /\ IsOk(out2) /\ ValueEq(Val(out2), SignSplit(input))
         /\ IntsNegative(input) => ValueEq(Val(out2), input)
C1_Witness ==
    /\ Reimported("json") /\ FloatsFinite(input) /\ IntsNegative(input)
    /\ Tag(input) = "Value::Table"
    /\ \E n \in ValueNodes(input) : Tag(n) = "Value::Array" /\ VInt(-1) \in ValueNodes(n)
    /\ ValueEq(Val(out2), input)

\* C2: TOML export fails, with UnsupportedType("null"), exactly when the
\* tree holds a Null at any depth; every null-free tree exports.
C2_TomlNullRejection ==
    Exported("toml") =>
        /\ ContainsNull(input) <=> out1 = Err(UnsupportedType("null"))
        /\ ~ContainsNull(input) => IsOk(out1)
C2_Witness ==
    /\ Exported("toml") /\ Tag(input) = "Value::Table"
    /\ \E k \in DOMAIN Val(input) : Val(input)[k] = VArray(<<VNull>>)
    /\ out1 = Err(UnsupportedType("null"))

\* the integer a native node is, as <<TRUE, n>>, or <<FALSE, 0>>
NativeInteger(x) ==
    CASE Tag(x) = "JVal::Number" /\ Tag(Val(x)) \in {"PosInt", "NegInt"} -> <<TRUE, Val(Val(x))>>
      [] Tag(x) \in {"TVal::Integer", "Yaml::Integer"} -> <<TRUE, Val(x)>>
      [] OTHER -> <<FALSE, 0>>
NoNonNegativeInt(r) ==
    IsOk(r) => \A n \in ValueNodes(Val(r)) : Tag(n) = "Value::Int" => Val(n) < 0
\* C3: each import turns a native integer n >= 0 into UInt(n) and n < 0
\* into Int(n); no import produces Int(i) with i >= 0; a JSON integer above
\* the signed maximum is imported as UInt(n).
C3_SignSplit ==
    /\ dir = "import" /\ out1 # None =>
         /\ NativeInteger(input)[1] =>
              out1 = Ok(IF NativeInteger(input)[2] >= 0 THEN VUInt(NativeInteger(input)[2])
                                                          ELSE VInt(NativeInteger(input)[2]))
         /\ NoNonNegativeInt(out1)
    /\ dir = "export" /\ out2 # None => NoNonNegativeInt(out2)
C3_Witness ==
    /\ Imported("json") /\ input = JNumber(PosInt(U64Max)) /\ U64Max > I64Max
    /\ out1 = Ok(VUInt(U64Max))

\* the aliases in key position
AliasKeys(y) == {k \in YamlKeyNodes(y) : Tag(k) = "Yaml::Alias"}
\* C4 as stated: a YAML tree whose only defective nodes are aliases, in
\* value or in key position, is rejected with UnsupportedType("alias").
C4_AliasAnywhere ==
    /\ Imported("yaml")
    /\ AliasValues(input) \cup AliasKeys(input) # {}
    /\ OtherDefects(input) = {} /\ NonStringKeys(input) \subseteq AliasKeys(input)
    => out1 = Err(UnsupportedType("alias"))
\* C4 amended: with the aliases in value position (top level, array
\* element, mapping value, at any depth) the import fails with
\* UnsupportedType("alias"); with the aliases only in key position it fails
\* with InvalidValue carrying the rendering of the alias key.
C4_AliasRejection ==
    Imported("yaml") /\ OtherDefects(input) = {} =>
        /\ AliasValues(input) # {} /\ NonStringKeys(input) = {}
             => out1 = Err(UnsupportedType("alias"))
        /\ AliasValues(input) = {} /\ AliasKeys(input) # {}
           /\ NonStringKeys(input) \subseteq AliasKeys(input)
             => \E k \in AliasKeys(input) : out1 = Err(InvalidValue(DebugYaml(k)))
C4_Witness ==
    /\ Imported("yaml") /\ Tag(input) = "Yaml::Hash"
    /\ \E i \in DOMAIN Val(input) :
         /\ Tag(Val(input)[i][2]) = "Yaml::Array"
         /\ YAlias(0) \in YamlValueNodes(Val(input)[i][2])
    /\ OtherDefects(input) = {} /\ NonStringKeys(input) = {}
    /\ out1 = Err(UnsupportedType("alias"))

\* C5: a YAML tree with a non-string mapping key, and otherwise well
\* formed, fails the import with InvalidValue carrying the rendering of
\* such a key, at Value level and at Table level (an error, no table).
C5_NonStringKey ==
    /\ fmt = "yaml" /\ dir = "import"
    /\ NonStringKeys(input) # {} /\ AliasValues(input) = {} /\ OtherDefects(input) = {}
    => /\ out1 # None =>
            \E k \in NonStringKeys(input) : out1 = Err(InvalidValue(DebugYaml(k)))
       /\ entry # None =>
            \E k \in NonStringKeys(input) : entry = Err(ValueError(InvalidValue(DebugYaml(k))))
C5_Witness ==
    /\ Imported("yaml") /\ Tag(input) = "Yaml::Array" /\ Len(Val(input)) = 2
    /\ Val(input)[1] = YHash(<< <<YInteger(1), YInteger(-1)>> >>)
    /\ Val(input)[2] = YInteger(-1)
    /\ out1 = Err(InvalidValue("Integer(1)"))

\* C6 as stated: JSON export of a tree holding a non-finite float returns
\* an error outcome (no panic, no coerced value), at Value level and at
\* Table level; export of any other tree succeeds.
C6_NonFiniteFloatIsError ==
    /\ Exported("json") =>
         IF FloatsFinite(input) THEN IsOk(out1) ELSE Tag(out1) = "Err"
    /\ fmt = "json" /\ dir = "export" /\ entry # None =>
         IF FloatsFinite(input) THEN IsOk(entry) ELSE Tag(entry) = "Err"

\* the outcome of the first failing child alone, given the children's own
\* outcomes in iteration order
FirstAlone(rs) ==
    rs[CHOOSE i \in DOMAIN rs : ~IsOk(rs[i]) /\ \A j \in 1..(i - 1) : IsOk(rs[j])]
\* what a YAML mapping entry yields on its own: its key is examined first
EntryAlone(e) ==
    IF Tag(e[1]) # "Yaml::String" THEN Err(InvalidValue(DebugYaml(e[1]))) ELSE FromYaml(e[2])
\* C7: a fallible conversion of an array or table with failing children
\* yields exactly what the first failing child, in iteration order, yields
\* alone; in a YAML mapping a non-string key comes before its value.
C7_FailFast ==
    /\ Imported("yaml") /\ Tag(input) = "Yaml::Array" =>
         LET rs == [i \in DOMAIN Val(input) |-> FromYaml(Val(input)[i])]
         IN  (\E i \in DOMAIN rs : ~IsOk(rs[i])) => out1 = FirstAlone(rs)
    /\ Imported("yaml") /\ Tag(input) = "Yaml::Hash" =>
         LET rs == [i \in DOMAIN Val(input) |-> EntryAlone(Val(input)[i])]
         IN  (\E i \in DOMAIN rs : ~IsOk(rs[i])) => out1 = FirstAlone(rs)
    /\ Exported("toml") /\ Tag(input) = "Value::Array" =>
         \A ord \in KeyOrders :
            LET rs == [i \in DOMAIN Val(input) |-> ToToml(Val(input)[i], ord)]
            IN  (\E i \in DOMAIN rs : ~IsOk(rs[i])) => out1 = FirstAlone(rs)
    /\ Exported("toml") /\ Tag(input) = "Value::Table" =>
         \E ord \in KeyOrders :
            LET ks == IterKeys(Val(input), ord)
                rs == [i \in DOMAIN ks |-> ToToml(Val(input)[ks[i]], ord)]
            IN  (\E i \in DOMAIN rs : ~IsOk(rs[i])) => out1 = FirstAlone(rs)
C7_Witness ==
    /\ Imported("yaml") /\ Tag(input) = "Yaml::Hash" /\ Len(Val(input)) = 2
    /\ Val(input)[1] = <<YInteger(1), YAlias(0)>>
    /\ Val(input)[2] = <<YString("a"), YBadValue>>
    /\ out1 = Err(InvalidValue("Integer(1)"))

NoDatetimeOrFloat(t) == Tag(t) \notin {"TVal::Datetime", "TVal::Float"}
RECURSIVE TomlNodes(_)
TomlNodes(t) ==
    {t} \cup
    CASE Tag(t) = "TVal::Array" -> UNION {TomlNodes(Val(t)[i]) : i \in DOMAIN Val(t)}
      [] Tag(t) = "TVal::Table" -> UNION {TomlNodes(Val(t)[k]) : k \in DOMAIN Val(t)}
      [] OTHER -> {}
\* C8: a native TOML value of booleans, strings, integers, arrays and
\* tables is imported and exported back to an equal native value; the
\* integer i passes through Int(i) when negative and UInt(i) otherwise.
C8_RoundTripToml ==
    fmt = "toml" /\ dir = "import" /\ (\A n \in TomlNodes(input) : NoDatetimeOrFloat(n)) =>
        /\ out1 # None => IsOk(out1)
        /\ out2 # None => out2 = Ok(input)
        /\ out1 # None /\ Tag(input) = "TVal::Integer" =>
             out1 = Ok(IF Val(input) < 0 THEN VInt(Val(input)) ELSE VUInt(Val(input)))
C8_Witness ==
    /\ Reexported("toml") /\ Tag(input) = "TVal::Table"
    /\ TInteger(-1) \in TomlNodes(input) /\ TInteger(I64Max) \in TomlNodes(input)
    /\ out2 = Ok(input)

\* C9: Table::to_toml returns ValueError(UnsupportedType("null")) exactly
\* when the table holds a Null, and otherwise Ok with a table of the same
\* keys; a non-table exported value would be refused as a TomlError, which
\* is not a ValueError.
C9_TableToToml ==
    /\ fmt = "toml" /\ dir = "export" /\ entry # None =>
         /\ ContainsNull(input) <=> entry = Err(ValueError(UnsupportedType("null")))
         /\ ~ContainsNull(input) => IsOk(entry) /\ DOMAIN Val(entry) = DOMAIN Val(input)
    /\ Exported("toml") /\ IsOk(out1) /\ Tag(Val(out1)) # "TVal::Table" =>
         LET r == MapErrTomlError(TomlTableTryFrom(Val(out1)))
         IN  Tag(r) = "Err" /\ Tag(Val(r)) = "TomlError"
C9_Witness ==
    /\ fmt = "toml" /\ dir = "export" /\ entry # None
    /\ DOMAIN Val(input) = Keys /\ ContainsNull(input)
    /\ entry = Err(ValueError(UnsupportedType("null")))

\* n reinterpreted as a two's complement signed integer
Reinterpret(n) == IF n <= I64Max THEN n ELSE n - Pow2(Bits)
\* C10: UInt(n) exports to TOML and to YAML without failing, as the signed
\* integer n reinterpreted modulo 2^Bits; importing that back gives
\* Int(n - 2^Bits) when n is above the signed maximum; JSON keeps UInt(n).
C10_UnsignedNarrowing ==
    dir = "export" /\ Tag(input) = "Value::UInt" =>
        /\ Exported("toml") => out1 = Ok(TInteger(Reinterpret(Val(input))))
        /\ Exported("yaml") => out1 = Ok(YInteger(Reinterpret(Val(input))))
        /\ Reimported("toml") \/ Reimported("yaml") =>
             out2 = Ok(IF Val(input) > I64Max THEN VInt(Val(input) - Pow2(Bits)) ELSE input)
        /\ Reimported("json") => out2 = Ok(input)
C10_Witness ==
    /\ Reimported("yaml") /\ input = VUInt(U64Max)
    /\ out1 = Ok(YInteger(-1)) /\ out2 = Ok(VInt(-1))

====
